---- MODULE Spec2Model ----
(***************************************************************************)
(* Model of vector.h: RawMemory<T>, Vector<T> (and, further down,          *)
(* Optional<T>).                                                           *)
(*                                                                         *)
(* The heap is a finite set of raw blocks.  A block is a sequence of slots;*)
(* a slot is U (raw, no object lives there), MF (a live object in the      *)
(* moved-from state) or a value of T.  A Vector is the pair of fields      *)
(* data_ (buffer_, capacity_) and size_.  Operations of the element type   *)
(* T (construct, copy, move, assign) may throw: the input t of an action   *)
(* says which of the throwing-capable element operations of the call       *)
(* throws (0: none).  An element operation that throws changes nothing.    *)
(* Reading a slot without a live object is undefined behaviour: the value  *)
(* read is the input g of the action, and the state variable ub records    *)
(* that undefined behaviour was executed; nothing is modelled afterwards.  *)
(***************************************************************************)
EXTENDS Integers, Sequences, FiniteSets, TLC

\* ---- bounds --------------------------------------------------------------
MaxCap == 4
MaxCapTwo == 2
MaxPushCap == 8
MaxVal == 1
MaxBlocks == 2

\* ---- program constants ---------------------------------------------------
Null == 0
DefaultValue == 0
GrowthFactor == 2
MinCapacity == 1

VecIds == {"a", "b"}
OptIds == {"p", "q"}
Values == 0..MaxVal
Blocks == 1..MaxBlocks
U == -1
MF == -2

VARIABLES vec, heap, nothrow_move, ub, last, opt, terminated
vars == <<vec, heap, nothrow_move, ub, last, opt, terminated>>

\* ---- RawMemory -----------------------------------------------------------
EmptyRaw == [buffer_ |-> Null, capacity_ |-> 0]

FreeBlocks(h) == {b \in Blocks : h[b] = <<>>}
CanAllocate(h, n) == n = 0 \/ FreeBlocks(h) # {}
NewBlock(h) == CHOOSE b \in FreeBlocks(h) : \A b2 \in FreeBlocks(h) : b <= b2

\* the execution context of one call
Ctx(h, t) == [heap |-> h, k |-> t, ex |-> FALSE, ctor |-> 0, dtor |-> 0,
              ub |-> FALSE, lost |-> 0]

LiveIn(s) == Cardinality({i \in 1..Len(s) : s[i] # U})

\* RawMemory::Allocate: n slots of raw memory, nullptr for n = 0
AllocateBuf(h, n) == IF n = 0 THEN Null ELSE NewBlock(h)
Allocate(c, n) ==
    IF n = 0 THEN c
    ELSE [c EXCEPT !.heap[NewBlock(c.heap)] = [i \in 1..n |-> U]]

\* RawMemory::Deallocate: operator delete; objects still in the block are lost
Deallocate(c, buf) ==
    IF buf = Null THEN c
    ELSE [c EXCEPT !.heap[buf] = <<>>,
                   !.lost = @ + LiveIn(c.heap[buf]),
                   !.ub = @ \/ c.heap[buf] = <<>>]

\* RawMemory(RawMemory&&): the new object takes buffer_ and capacity_
RawMemoryMove(other) == [buffer_ |-> other.buffer_, capacity_ |-> other.capacity_]

\* RawMemory::operator=(RawMemory&&): the fields of self are overwritten,
\* the block self held is not released
RawMemoryMoveAssign(self, rhs) == [buffer_ |-> rhs.buffer_, capacity_ |-> rhs.capacity_]

\* ---- element operations --------------------------------------------------
\* the value an element operation reads from slot i (0-based) of block b
ReadSlot(c, b, i, g) == IF c.heap[b][i + 1] = U THEN g ELSE c.heap[b][i + 1]
ReadUB(c, b, i) == c.heap[b][i + 1] = U

Tick(c) == [c EXCEPT !.k = IF c.k > 0 THEN c.k - 1 ELSE 0]
Throw(c) == [c EXCEPT !.ex = TRUE, !.k = 0]

\* new (p) T(val): placement construction of val in slot i of block b
ConstructAt(c, b, i, val) ==
    IF c.ex THEN c
    ELSE IF c.k = 1 THEN Throw(c)
    ELSE [Tick(c) EXCEPT !.heap[b][i + 1] = val,
                         !.ctor = @ + 1,
                         !.lost = @ + (IF c.heap[b][i + 1] # U THEN 1 ELSE 0)]

\* new (p) T(src): copy construction from slot si of block sb
CopyConstruct(c, sb, si, db, di, g) ==
    IF c.ex THEN c
    ELSE IF c.k = 1 THEN Throw(c)
    ELSE [Tick(c) EXCEPT !.heap[db][di + 1] = ReadSlot(c, sb, si, g),
                         !.ctor = @ + 1,
                         !.ub = @ \/ ReadUB(c, sb, si),
                         !.lost = @ + (IF c.heap[db][di + 1] # U /\ ~(sb = db /\ si = di)
                                       THEN 1 ELSE 0)]

\* new (p) T(std::move(src)): the source stays alive, moved-from; the move
\* constructor can throw only when T is not nothrow-move-constructible
MoveConstruct(c, sb, si, db, di, g, nothrow) ==
    IF c.ex THEN c
    ELSE IF ~nothrow /\ c.k = 1 THEN Throw(c)
    ELSE LET c1 == IF nothrow THEN c ELSE Tick(c)
             val == ReadSlot(c, sb, si, g)
             h1 == [c.heap EXCEPT ![sb][si + 1] = IF @ = U THEN U ELSE MF]
         IN [c1 EXCEPT !.heap = [h1 EXCEPT ![db][di + 1] = val],
                       !.ctor = @ + 1,
                       !.ub = @ \/ ReadUB(c, sb, si),
                       !.lost = @ + (IF c.heap[db][di + 1] # U THEN 1 ELSE 0)]

\* *dst = *src
CopyAssign(c, sb, si, db, di, g) ==
    IF c.ex THEN c
    ELSE IF c.k = 1 THEN Throw(c)
    ELSE [Tick(c) EXCEPT !.heap[db][di + 1] = ReadSlot(c, sb, si, g),
                         !.ub = @ \/ ReadUB(c, sb, si) \/ ReadUB(c, db, di)]

\* *dst = std::move(*src)
MoveAssign(c, sb, si, db, di, g) ==
    IF c.ex THEN c
    ELSE IF c.k = 1 THEN Throw(c)
    ELSE LET val == ReadSlot(c, sb, si, g)
             h1 == [c.heap EXCEPT ![sb][si + 1] = IF @ = U THEN U ELSE MF]
         IN [Tick(c) EXCEPT !.heap = [h1 EXCEPT ![db][di + 1] = val],
                            !.ub = @ \/ ReadUB(c, sb, si) \/ ReadUB(c, db, di)]

\* *dst = std::move(temp) for a local temp holding val
MoveAssignValue(c, val, db, di) ==
    IF c.ex THEN c
    ELSE IF c.k = 1 THEN Throw(c)
    ELSE [Tick(c) EXCEPT !.heap[db][di + 1] = val,
                         !.ub = @ \/ ReadUB(c, db, di)]

\* std::destroy_at(p): runs in handlers too, so it does not look at c.ex
DestroyAt(c, b, i) ==
    [c EXCEPT !.heap[b][i + 1] = U,
              !.dtor = @ + 1,
              !.ub = @ \/ c.heap[b][i + 1] = U]

\* ---- <memory> / <algorithm> ----------------------------------------------
RECURSIVE DestroyN(_, _, _, _)
DestroyN(c, b, off, n) ==
    IF n <= 0 THEN c
    ELSE DestroyN(DestroyAt(c, b, off), b, off + 1, n - 1)

\* the handler of the uninitialized_* algorithms: destroy the j objects built
UninitRollback(c, b, off, j) == DestroyN(c, b, off, j)

RECURSIVE UCopyFrom(_, _, _, _, _, _, _, _)
UCopyFrom(c, sb, so, db, do, n, j, g) ==
    IF c.ex \/ j >= n THEN c
    ELSE LET c1 == CopyConstruct(c, sb, so + j, db, do + j, g)
         IN IF c1.ex THEN UninitRollback(c1, db, do, j)
            ELSE UCopyFrom(c1, sb, so, db, do, n, j + 1, g)

UninitializedCopyN(c, sb, so, n, db, do, g) == UCopyFrom(c, sb, so, db, do, n, 0, g)

RECURSIVE UMoveFrom(_, _, _, _, _, _, _, _, _)
UMoveFrom(c, sb, so, db, do, n, j, g, nothrow) ==
    IF c.ex \/ j >= n THEN c
    ELSE LET c1 == MoveConstruct(c, sb, so + j, db, do + j, g, nothrow)
         IN IF c1.ex THEN UninitRollback(c1, db, do, j)
            ELSE UMoveFrom(c1, sb, so, db, do, n, j + 1, g, nothrow)

UninitializedMoveN(c, sb, so, n, db, do, g, nothrow) ==
    UMoveFrom(c, sb, so, db, do, n, 0, g, nothrow)

RECURSIVE UValueFrom(_, _, _, _, _)
UValueFrom(c, b, off, n, j) ==
    IF c.ex \/ j >= n THEN c
    ELSE LET c1 == ConstructAt(c, b, off + j, DefaultValue)
         IN IF c1.ex THEN UninitRollback(c1, b, off, j)
            ELSE UValueFrom(c1, b, off, n, j + 1)

UninitializedValueConstructN(c, b, off, n) == UValueFrom(c, b, off, n, 0)

\* std::copy_n: copy assignment, front to back, no rollback
RECURSIVE CopyN(_, _, _, _, _, _, _)
CopyN(c, sb, so, n, db, do, g) ==
    IF c.ex \/ n <= 0 THEN c
    ELSE CopyN(CopyAssign(c, sb, so, db, do, g), sb, so + 1, n - 1, db, do + 1, g)

\* std::move run back to front, as std::move_backward would
RECURSIVE MoveRangeBackFirst(_, _, _, _, _, _)
MoveRangeBackFirst(c, b, first, lst, dfirst, g) ==
    IF c.ex \/ first >= lst THEN c
    ELSE MoveRangeBackFirst(MoveAssign(c, b, lst - 1, b, dfirst + ((lst - 1) - first), g),
                            b, first, lst - 1, dfirst, g)

\* std::move(first, last, d_first): move assignment, front to back
RECURSIVE MoveRange(_, _, _, _, _, _)
MoveRange(c, b, first, lst, dfirst, g) ==
    IF c.ex \/ first >= lst THEN c
    ELSE MoveRange(MoveAssign(c, b, first, b, dfirst, g), b, first + 1, lst, dfirst + 1, g)

\* std::move_backward run front to back, as std::move would
MoveBackwardFrontFirst(c, b, first, lst, dlast, g) ==
    MoveRange(c, b, first, lst, dlast - (lst - first), g)

\* std::move_backward(first, last, d_last): move assignment, back to front
RECURSIVE MoveBackward(_, _, _, _, _, _)
MoveBackward(c, b, first, lst, dlast, g) ==
    IF c.ex \/ first >= lst THEN c
    ELSE MoveBackward(MoveAssign(c, b, lst - 1, b, dlast - 1, g), b, first, lst - 1, dlast - 1, g)

\* std::destroy_n with a count computed in size_t: a count that runs past the
\* end of the block touches memory the vector does not own
DestroyNInBlock(c, b, off, n, cap) ==
    IF n <= cap - off THEN DestroyN(c, b, off, n)
    ELSE [DestroyN(c, b, off, cap - off) EXCEPT !.ub = TRUE]

\* ---- size_t --------------------------------------------------------------
\* size_t is modelled 31 bits wide
SIZE_MAX == 2147483647
SizeTSub(x, y) == IF x >= y THEN x - y ELSE (SIZE_MAX - (y - x)) + 1
\* std::abs(static_cast<int>(x - y)) for sizes far below 2^31
AbsIntDiff(x, y) == IF x >= y THEN x - y ELSE y - x

\* ---- Vector --------------------------------------------------------------
EmptyVector == [data_ |-> EmptyRaw, size_ |-> 0]
Begin(x) == x.data_.buffer_
Size(x) == x.size_
Capacity(x) == x.data_.capacity_

\* an iterator / reference: a block and an offset into it
Ptr(b, o) == [buf |-> b, off |-> o]
NoPtr == Ptr(Null, 0)
\* std::distance(p, q) for two pointers into one block
Distance(p, q) == q.off - p.off

Res(c, x, outcome, branch, ret) ==
    [c |-> c, x |-> x, outcome |-> outcome, branch |-> branch, ret |-> ret]
Res2(c, x, y, outcome, branch) ==
    [c |-> c, x |-> x, y |-> y, outcome |-> outcome, branch |-> branch, ret |-> NoPtr]

\* Vector(size_t size)
SizeCtor(c, n) ==
    IF ~CanAllocate(c.heap, n) THEN Res(c, EmptyVector, "bad_alloc", "ctor", NoPtr)
    ELSE LET buf == AllocateBuf(c.heap, n)
             c1 == Allocate(c, n)
             c2 == UninitializedValueConstructN(c1, buf, 0, n)
         IN IF c2.ex THEN Res(Deallocate(c2, buf), EmptyVector, "throw", "ctor", NoPtr)
            ELSE Res(c2, [data_ |-> [buffer_ |-> buf, capacity_ |-> n], size_ |-> n],
                     "ok", "ctor", NoPtr)

\* a copy constructor that takes the other vector's block instead of a new one
CopyCtorShallow(c, other, g) ==
    Res(c, [data_ |-> [buffer_ |-> Begin(other), capacity_ |-> Size(other)],
            size_ |-> Size(other)], "ok", "ctor", NoPtr)

\* Vector(const Vector& other)
CopyCtor(c, other, g) ==
    IF ~CanAllocate(c.heap, Size(other)) THEN Res(c, EmptyVector, "bad_alloc", "ctor", NoPtr)
    ELSE LET n == Size(other)
             buf == AllocateBuf(c.heap, n)
             c1 == Allocate(c, n)
             c2 == UninitializedCopyN(c1, Begin(other), 0, n, buf, 0, g)
         IN IF c2.ex THEN Res(Deallocate(c2, buf), EmptyVector, "throw", "ctor", NoPtr)
            ELSE Res(c2, [data_ |-> [buffer_ |-> buf, capacity_ |-> n], size_ |-> n],
                     "ok", "ctor", NoPtr)

\* Vector(Vector&& other): std::exchange leaves other.data_ a fresh RawMemory
MoveCtor(c, other) ==
    Res2(c, [data_ |-> RawMemoryMove(other.data_), size_ |-> other.size_],
         [data_ |-> EmptyRaw, size_ |-> 0], "ok", "ctor")

\* ~Vector(), then ~RawMemory()
VectorDtor(c, x) ==
    Deallocate(DestroyN(c, Begin(x), 0, Size(x)), Begin(x))

\* Vector::Swap: both fields are exchanged
SwapVec(c, x, y) == Res2(c, y, x, "ok", "swap")

\* Vector::operator=(const Vector&) for this # &rhs
CopyAssignVec(c, x, rhs, g) ==
    IF Size(rhs) > Capacity(x)
    THEN LET r == CopyCtor(c, rhs, g)
         IN IF r.outcome # "ok" THEN Res(r.c, x, r.outcome, "realloc", NoPtr)
            ELSE \* Swap(rhs_copy), then rhs_copy (holding the old state) dies
                 Res(VectorDtor(r.c, x), r.x, "ok", "realloc", NoPtr)
    ELSE LET size_delta == AbsIntDiff(Size(rhs), Size(x))
         IN IF Size(rhs) < Size(x)
            THEN LET c1 == CopyN(c, Begin(rhs), 0, Size(rhs), Begin(x), 0, g)
                 IN IF c1.ex THEN Res(c1, x, "throw", "shrink", NoPtr)
                    ELSE Res(DestroyN(c1, Begin(x), Size(rhs), size_delta),
                             [x EXCEPT !.size_ = Size(rhs)], "ok", "shrink", NoPtr)
            ELSE LET c1 == CopyN(c, Begin(rhs), 0, Size(x), Begin(x), 0, g)
                     \* the source of the copy is this vector's own raw tail
                     c2 == UninitializedCopyN(c1, Begin(x), Size(x), size_delta,
                                              Begin(x), Size(x), g)
                 IN IF c2.ex THEN Res(c2, x, "throw", "grow", NoPtr)
                    ELSE Res(c2, [x EXCEPT !.size_ = Size(rhs)], "ok", "grow", NoPtr)

\* a move assignment that forgets to empty its source
MoveAssignVecKeepsSource(c, x, rhs) ==
    Res2(c, [data_ |-> RawMemoryMoveAssign(x.data_, rhs.data_), size_ |-> rhs.size_],
         rhs, "ok", "move")

\* Vector::operator=(Vector&&) for this # &rhs
MoveAssignVec(c, x, rhs) ==
    Res2(c, [data_ |-> RawMemoryMoveAssign(x.data_, rhs.data_), size_ |-> rhs.size_],
         [data_ |-> EmptyRaw, size_ |-> 0], "ok", "move")

\* a relocation that moves whatever the element type promises
RelocateAlwaysMoves(c, sb, so, n, db, do, g, nothrow) ==
    UninitializedMoveN(c, sb, so, n, db, do, g, nothrow)

\* the relocation of Reserve / EmplaceBack / Emplace: move or copy n elements
Relocate(c, sb, so, n, db, do, g, nothrow) ==
    IF nothrow THEN UninitializedMoveN(c, sb, so, n, db, do, g, nothrow)
    ELSE UninitializedCopyN(c, sb, so, n, db, do, g)

\* a Reserve that never allocates less than twice the capacity it has
ReserveGeometric(c, x, new_capacity, g, nothrow) ==
    IF new_capacity > Capacity(x)
    THEN LET ncap == IF new_capacity < GrowthFactor * Capacity(x)
                     THEN GrowthFactor * Capacity(x) ELSE new_capacity
         IN IF ~CanAllocate(c.heap, ncap) THEN Res(c, x, "bad_alloc", "realloc", NoPtr)
            ELSE LET buf == AllocateBuf(c.heap, ncap)
                     c1 == Allocate(c, ncap)
                     c2 == Relocate(c1, Begin(x), 0, Size(x), buf, 0, g, nothrow)
                 IN IF c2.ex THEN Res(Deallocate(c2, buf), x, "throw", "realloc", NoPtr)
                    ELSE LET c3 == DestroyN(c2, Begin(x), 0, Size(x))
                         IN Res(Deallocate(c3, Begin(x)),
                                [x EXCEPT !.data_ = [buffer_ |-> buf, capacity_ |-> ncap]],
                                "ok", "realloc", NoPtr)
    ELSE Res(c, x, "ok", "noop", NoPtr)

\* a Reserve that also gives back unused capacity
ReserveShrinks(c, x, new_capacity, g, nothrow) ==
    IF new_capacity # Capacity(x) /\ new_capacity >= Size(x)
    THEN IF ~CanAllocate(c.heap, new_capacity) THEN Res(c, x, "bad_alloc", "realloc", NoPtr)
         ELSE LET buf == AllocateBuf(c.heap, new_capacity)
                  c1 == Allocate(c, new_capacity)
                  c2 == Relocate(c1, Begin(x), 0, Size(x), buf, 0, g, nothrow)
              IN IF c2.ex THEN Res(Deallocate(c2, buf), x, "throw", "realloc", NoPtr)
                 ELSE LET c3 == DestroyN(c2, Begin(x), 0, Size(x))
                      IN Res(Deallocate(c3, Begin(x)),
                             [x EXCEPT !.data_ = [buffer_ |-> buf, capacity_ |-> new_capacity]],
                             "ok", "realloc", NoPtr)
    ELSE Res(c, x, "ok", "noop", NoPtr)

\* Vector::Reserve
Reserve(c, x, new_capacity, g, nothrow) ==
    IF new_capacity > Capacity(x)
    THEN IF ~CanAllocate(c.heap, new_capacity) THEN Res(c, x, "bad_alloc", "realloc", NoPtr)
         ELSE LET buf == AllocateBuf(c.heap, new_capacity)
                  c1 == Allocate(c, new_capacity)
                  c2 == Relocate(c1, Begin(x), 0, Size(x), buf, 0, g, nothrow)
              IN IF c2.ex THEN Res(Deallocate(c2, buf), x, "throw", "realloc", NoPtr)
                 ELSE LET c3 == DestroyN(c2, Begin(x), 0, Size(x))
                      IN Res(Deallocate(c3, Begin(x)),
                             [x EXCEPT !.data_ = [buffer_ |-> buf, capacity_ |-> new_capacity]],
                             "ok", "realloc", NoPtr)
    ELSE Res(c, x, "ok", "noop", NoPtr)

\* Vector::Resize
Resize(c, x, new_size, g, nothrow) ==
    IF new_size > Capacity(x)
    THEN LET r == Reserve(c, x, new_size, g, nothrow)
         IN IF r.outcome # "ok" THEN Res(r.c, x, r.outcome, "realloc", NoPtr)
            ELSE LET c1 == UninitializedValueConstructN(r.c, Begin(r.x), 0,
                                                        new_size - Size(x))
                 IN IF c1.ex THEN Res(c1, r.x, "throw", "realloc", NoPtr)
                    ELSE Res(c1, [r.x EXCEPT !.size_ = new_size], "ok", "realloc", NoPtr)
    ELSE LET c1 == DestroyNInBlock(c, Begin(x), new_size,
                                   SizeTSub(Size(x), new_size), Capacity(x))
         IN Res(c1, [x EXCEPT !.size_ = new_size], "ok",
                IF new_size > Size(x) THEN "grow"
                ELSE IF new_size < Size(x) THEN "shrink" ELSE "same", NoPtr)

\* growth by one slot instead of doubling
GrownCapacityByOne(x) == Size(x) + 1

\* the capacity an insertion into a full vector allocates
GrownCapacity(x) == IF Size(x) = 0 THEN MinCapacity ELSE GrowthFactor * Size(x)

\* an insertion keeps the capacity within lim
Fits(x, lim) == Size(x) < Capacity(x) \/ GrownCapacity(x) <= lim

\* Vector::EmplaceBack (PushBack forwards to it)
EmplaceBack(c, x, val, g, nothrow) ==
    IF Size(x) = Capacity(x)
    THEN IF ~CanAllocate(c.heap, GrownCapacity(x)) THEN Res(c, x, "bad_alloc", "realloc", NoPtr)
         ELSE LET ncap == GrownCapacity(x)
                  buf == AllocateBuf(c.heap, ncap)
                  c1 == Allocate(c, ncap)
                  c2 == ConstructAt(c1, buf, Size(x), val)
                  c3 == Relocate(c2, Begin(x), 0, Size(x), buf, 0, g, nothrow)
              IN IF c3.ex THEN Res(Deallocate(c3, buf), x, "throw", "realloc", NoPtr)
                 ELSE LET c4 == DestroyN(c3, Begin(x), 0, Size(x))
                      IN Res(Deallocate(c4, Begin(x)),
                             [data_ |-> [buffer_ |-> buf, capacity_ |-> ncap],
                              size_ |-> Size(x) + 1],
                             "ok", "realloc", Ptr(buf, (Size(x) + 1) - 1))
    ELSE LET c1 == ConstructAt(c, Begin(x), Size(x), val)
         IN IF c1.ex THEN Res(c1, x, "throw", "end", NoPtr)
            ELSE Res(c1, [x EXCEPT !.size_ = @ + 1], "ok", "end",
                     Ptr(Begin(x), (Size(x) + 1) - 1))

\* Vector::PopBack
PopBack(c, x) ==
    Res(DestroyAt(c, Begin(x), Size(x) - 1), [x EXCEPT !.size_ = @ - 1], "ok", "pop", NoPtr)

\* Vector::Emplace, size == capacity: build in a new block around new_pos
EmplaceRealloc(c, x, i, val, g, nothrow) ==
    IF ~CanAllocate(c.heap, GrownCapacity(x)) THEN Res(c, x, "bad_alloc", "realloc", NoPtr)
    ELSE LET ncap == GrownCapacity(x)
             buf == AllocateBuf(c.heap, ncap)
             c1 == Allocate(c, ncap)
             \* new (new_pos) T(args)
             c2 == ConstructAt(c1, buf, i, val)
             \* prefix [begin, pos)
             c3 == Relocate(c2, Begin(x), 0, i, buf, 0, g, nothrow)
             \* suffix [pos, end)
             c4 == Relocate(c3, Begin(x), i, Size(x) - i, buf, i + 1, g, nothrow)
         IN IF c2.ex THEN Res(Deallocate(c2, buf), x, "throw", "realloc", NoPtr)
            ELSE IF c3.ex
                 THEN \* catch: destroy_at(new_pos)
                      Res(Deallocate(DestroyAt(c3, buf, i), buf), x, "throw", "realloc", NoPtr)
            ELSE IF c4.ex
                 THEN \* catch: destroy(new_data.GetAddress(), new_pos + 1)
                      Res(Deallocate(DestroyN(c4, buf, 0, i + 1), buf), x, "throw", "realloc", NoPtr)
            ELSE LET c5 == DestroyN(c4, Begin(x), 0, Size(x))
                 IN Res(Deallocate(c5, Begin(x)),
                        [data_ |-> [buffer_ |-> buf, capacity_ |-> ncap],
                         size_ |-> Size(x) + 1],
                        "ok", "realloc",
                        \* begin() + std::distance(begin(), new_pos), after the Swap
                        Ptr(buf, Distance(Ptr(buf, 0), Ptr(buf, i))))

\* Vector::Emplace, size < capacity and pos # end: shift through a temporary
EmplaceShift(c, x, i, val, g, nothrow) ==
    LET b == Begin(x)
        n == Size(x)
        \* T temp(args): a local object, built and destroyed outside the heap
        c1 == IF c.k = 1 THEN Throw(c) ELSE [Tick(c) EXCEPT !.ctor = @ + 1]
        \* new (end()) T(std::move(*(end() - 1)))
        c2 == MoveConstruct(c1, b, n - 1, b, n, g, nothrow)
        \* std::move_backward(pos, end() - 1, end())
        c3 == MoveBackward(c2, b, i, n - 1, n, g)
        \* *pos = std::move(temp)
        c4 == MoveAssignValue(c3, val, b, i)
    IN IF c1.ex THEN Res(c1, x, "throw", "shift", NoPtr)
       ELSE IF c4.ex THEN Res([c4 EXCEPT !.dtor = @ + 1], x, "throw", "shift", NoPtr)
       ELSE Res([c4 EXCEPT !.dtor = @ + 1], [x EXCEPT !.size_ = @ + 1], "ok", "shift",
                Ptr(b, Distance(Ptr(b, 0), Ptr(b, i))))

\* Vector::Emplace (Insert forwards to it); pos = begin() + i
Emplace(c, x, i, val, g, nothrow) ==
    IF Size(x) = Capacity(x) THEN EmplaceRealloc(c, x, i, val, g, nothrow)
    ELSE IF i # Size(x) THEN EmplaceShift(c, x, i, val, g, nothrow)
    ELSE LET c1 == ConstructAt(c, Begin(x), Size(x), val)
         IN IF c1.ex THEN Res(c1, x, "throw", "end", NoPtr)
            ELSE Res(c1, [x EXCEPT !.size_ = @ + 1], "ok", "end",
                     Ptr(Begin(x), Distance(Ptr(Begin(x), 0), Ptr(Begin(x), i))))

\* an Erase that forgets the shift and drops the last element
EraseWithoutShift(c, x, i, g) ==
    Res(DestroyAt(c, Begin(x), Size(x) - 1), [x EXCEPT !.size_ = @ - 1],
        "ok", "erase", Ptr(Begin(x), i))

\* Vector::Erase; pos = begin() + i
Erase(c, x, i, g) ==
    LET c1 == MoveRange(c, Begin(x), i + 1, Size(x), i, g)
    IN IF c1.ex THEN Res(c1, x, "throw", "erase", NoPtr)
       ELSE Res(DestroyAt(c1, Begin(x), Size(x) - 1), [x EXCEPT !.size_ = @ - 1],
                "ok", "erase", Ptr(Begin(x), Distance(Ptr(Begin(x), 0), Ptr(Begin(x), i))))

\* ---- insertion of an element of the vector itself -------------------------
\* new (p) T(v[j]) or new (p) T(std::move(v[j])): the argument is read when
\* the constructor runs
ConstructFromRef(c, sb, j, db, di, g, mv, nothrow) ==
    IF mv THEN MoveConstruct(c, sb, j, db, di, g, nothrow)
    ELSE CopyConstruct(c, sb, j, db, di, g)

\* Vector::EmplaceBack with args = v[j]
EmplaceBackRef(c, x, j, mv, g, nothrow) ==
    IF Size(x) = Capacity(x)
    THEN IF ~CanAllocate(c.heap, GrownCapacity(x)) THEN Res(c, x, "bad_alloc", "realloc", NoPtr)
         ELSE LET ncap == GrownCapacity(x)
                  buf == AllocateBuf(c.heap, ncap)
                  c1 == Allocate(c, ncap)
                  c2 == ConstructFromRef(c1, Begin(x), j, buf, Size(x), g, mv, nothrow)
                  c3 == Relocate(c2, Begin(x), 0, Size(x), buf, 0, g, nothrow)
              IN IF c3.ex THEN Res(Deallocate(c3, buf), x, "throw", "realloc", NoPtr)
                 ELSE LET c4 == DestroyN(c3, Begin(x), 0, Size(x))
                      IN Res(Deallocate(c4, Begin(x)),
                             [data_ |-> [buffer_ |-> buf, capacity_ |-> ncap],
                              size_ |-> Size(x) + 1],
                             "ok", "realloc", Ptr(buf, (Size(x) + 1) - 1))
    ELSE LET c1 == ConstructFromRef(c, Begin(x), j, Begin(x), Size(x), g, mv, nothrow)
         IN IF c1.ex THEN Res(c1, x, "throw", "end", NoPtr)
            ELSE Res(c1, [x EXCEPT !.size_ = @ + 1], "ok", "end",
                     Ptr(Begin(x), (Size(x) + 1) - 1))

\* Vector::Emplace with args = v[j], size == capacity
EmplaceReallocRef(c, x, i, j, mv, g, nothrow) ==
    IF ~CanAllocate(c.heap, GrownCapacity(x)) THEN Res(c, x, "bad_alloc", "realloc", NoPtr)
    ELSE LET ncap == GrownCapacity(x)
             buf == AllocateBuf(c.heap, ncap)
             c1 == Allocate(c, ncap)
             \* new (new_pos) T(args)
             c2 == ConstructFromRef(c1, Begin(x), j, buf, i, g, mv, nothrow)
             c3 == Relocate(c2, Begin(x), 0, i, buf, 0, g, nothrow)
             c4 == Relocate(c3, Begin(x), i, Size(x) - i, buf, i + 1, g, nothrow)
         IN IF c2.ex THEN Res(Deallocate(c2, buf), x, "throw", "realloc", NoPtr)
            ELSE IF c3.ex
                 THEN Res(Deallocate(DestroyAt(c3, buf, i), buf), x, "throw", "realloc", NoPtr)
            ELSE IF c4.ex
                 THEN Res(Deallocate(DestroyN(c4, buf, 0, i + 1), buf), x, "throw", "realloc", NoPtr)
            ELSE LET c5 == DestroyN(c4, Begin(x), 0, Size(x))
                 IN Res(Deallocate(c5, Begin(x)),
                        [data_ |-> [buffer_ |-> buf, capacity_ |-> ncap],
                         size_ |-> Size(x) + 1],
                        "ok", "realloc", Ptr(buf, Distance(Ptr(buf, 0), Ptr(buf, i))))

\* the shift without the temporary: the argument is read after the shift
EmplaceShiftRefNoTemp(c, x, i, j, mv, g, nothrow) ==
    LET b == Begin(x)
        n == Size(x)
        c2 == MoveConstruct(c, b, n - 1, b, n, g, nothrow)
        c3 == MoveBackward(c2, b, i, n - 1, n, g)
        c4 == IF mv THEN MoveAssign(c3, b, j, b, i, g) ELSE CopyAssign(c3, b, j, b, i, g)
    IN IF c4.ex THEN Res(c4, x, "throw", "shift", NoPtr)
       ELSE Res(c4, [x EXCEPT !.size_ = @ + 1], "ok", "shift",
                Ptr(b, Distance(Ptr(b, 0), Ptr(b, i))))

\* Vector::Emplace with args = v[j], size < capacity and pos # end
EmplaceShiftRef(c, x, i, j, mv, g, nothrow) ==
    LET b == Begin(x)
        n == Size(x)
        \* T temp(args): the local object takes the value v[j] has now
        val == ReadSlot(c, b, j, g)
        canthrow == ~(mv /\ nothrow)
        c1 == IF canthrow /\ c.k = 1 THEN Throw(c)
              ELSE [(IF canthrow THEN Tick(c) ELSE c) EXCEPT
                       !.ctor = @ + 1,
                       !.ub = @ \/ ReadUB(c, b, j),
                       !.heap[b][j + 1] = IF mv /\ @ # U THEN MF ELSE @]
        \* new (end()) T(std::move(*(end() - 1)))
        c2 == MoveConstruct(c1, b, n - 1, b, n, g, nothrow)
        \* std::move_backward(pos, end() - 1, end())
        c3 == MoveBackward(c2, b, i, n - 1, n, g)
        \* *pos = std::move(temp)
        c4 == MoveAssignValue(c3, val, b, i)
    IN IF c1.ex THEN Res(c1, x, "throw", "shift", NoPtr)
       ELSE IF c4.ex THEN Res([c4 EXCEPT !.dtor = @ + 1], x, "throw", "shift", NoPtr)
       ELSE Res([c4 EXCEPT !.dtor = @ + 1], [x EXCEPT !.size_ = @ + 1], "ok", "shift",
                Ptr(b, Distance(Ptr(b, 0), Ptr(b, i))))

\* Vector::Emplace with args = v[j]; pos = begin() + i
EmplaceRef(c, x, i, j, mv, g, nothrow) ==
    IF Size(x) = Capacity(x) THEN EmplaceReallocRef(c, x, i, j, mv, g, nothrow)
    ELSE IF i # Size(x) THEN EmplaceShiftRef(c, x, i, j, mv, g, nothrow)
    ELSE LET c1 == ConstructFromRef(c, Begin(x), j, Begin(x), Size(x), g, mv, nothrow)
         IN IF c1.ex THEN Res(c1, x, "throw", "end", NoPtr)
            ELSE Res(c1, [x EXCEPT !.size_ = @ + 1], "ok", "end",
                     Ptr(Begin(x), Distance(Ptr(Begin(x), 0), Ptr(Begin(x), i))))

\* ---- Optional ------------------------------------------------------------
\* data_ is storage for one T, is_initialized_ the presence flag
EmptyOptional == [data_ |-> <<U>>, is_initialized_ |-> FALSE]
HasValue(x) == x.is_initialized_

\* the storage of the Optionals as the blocks the element operations work on
OptStorage(os) == [o \in OptIds |-> os[o].obj.data_]
OptCtx(os, t) == Ctx(OptStorage(os), t)

\* the result of a call on Optional o: the context, the flag of o, how it ended
\* and the value Value() returned
OptRes(c, flag, outcome, ret) == [c |-> c, flag |-> flag, outcome |-> outcome, ret |-> ret]

\* new (data_) T(std::move(value)) for a value living outside the Optional
ConstructMovedAt(c, b, i, val, nothrow) ==
    IF nothrow THEN [ConstructAt([c EXCEPT !.k = 0], b, i, val) EXCEPT !.k = c.k]
    ELSE ConstructAt(c, b, i, val)

\* *dst = value for a value living outside the Optional
AssignValue(c, val, db, di) ==
    IF c.ex THEN c
    ELSE IF c.k = 1 THEN Throw(c)
    ELSE [Tick(c) EXCEPT !.heap[db][di + 1] = val,
                         !.ub = @ \/ ReadUB(c, db, di)]

\* a Reset that destroys the value and leaves the flag set
OptResetKeepsFlag(c, o, x) ==
    IF HasValue(x) THEN OptRes(DestroyAt(c, o, 0), TRUE, "ok", U)
    ELSE OptRes(c, FALSE, "ok", U)

\* Optional::Reset
OptReset(c, o, x) ==
    IF HasValue(x) THEN OptRes(DestroyAt(c, o, 0), FALSE, "ok", U)
    ELSE OptRes(c, FALSE, "ok", U)

\* Optional(const T& value)
OptValueCtor(c, o, val) ==
    LET c1 == ConstructAt(c, o, 0, val)
    IN IF c1.ex THEN OptRes(c1, FALSE, "throw", U) ELSE OptRes(c1, TRUE, "ok", U)

\* Optional(T&& value)
OptRvalueCtor(c, o, val, nothrow) ==
    LET c1 == ConstructMovedAt(c, o, 0, val, nothrow)
    IN IF c1.ex THEN OptRes(c1, FALSE, "throw", U) ELSE OptRes(c1, TRUE, "ok", U)

\* Optional(const Optional& other)
OptCopyCtor(c, o, other, rhs, g) ==
    IF HasValue(rhs)
    THEN LET c1 == CopyConstruct(c, other, 0, o, 0, g)
         IN IF c1.ex THEN OptRes(c1, FALSE, "throw", U) ELSE OptRes(c1, TRUE, "ok", U)
    ELSE OptRes(c, FALSE, "ok", U)

\* Optional(Optional&& other): other keeps its flag and a moved-from value
OptMoveCtor(c, o, other, rhs, g, nothrow) ==
    IF HasValue(rhs)
    THEN LET c1 == MoveConstruct(c, other, 0, o, 0, g, nothrow)
         IN IF c1.ex THEN OptRes(c1, FALSE, "throw", U) ELSE OptRes(c1, TRUE, "ok", U)
    ELSE OptRes(c, FALSE, "ok", U)

\* Optional::operator=(const T&)
OptAssignValue(c, o, x, val) ==
    IF HasValue(x)
    THEN LET c1 == AssignValue(c, val, o, 0)
         IN OptRes(c1, TRUE, IF c1.ex THEN "throw" ELSE "ok", U)
    ELSE LET c1 == ConstructAt(c, o, 0, val)
         IN IF c1.ex THEN OptRes(c1, FALSE, "throw", U) ELSE OptRes(c1, TRUE, "ok", U)

\* Optional::operator=(T&&)
OptAssignRvalue(c, o, x, val, nothrow) ==
    IF HasValue(x)
    THEN LET c1 == MoveAssignValue(c, val, o, 0)
         IN OptRes(c1, TRUE, IF c1.ex THEN "throw" ELSE "ok", U)
    ELSE LET c1 == ConstructMovedAt(c, o, 0, val, nothrow)
         IN IF c1.ex THEN OptRes(c1, FALSE, "throw", U) ELSE OptRes(c1, TRUE, "ok", U)

\* Optional::operator=(const Optional&)
OptCopyAssign(c, o, x, other, rhs, g) ==
    IF o = other THEN OptRes(c, HasValue(x), "ok", U)
    ELSE IF ~HasValue(rhs) THEN OptReset(c, o, x)
    ELSE IF HasValue(x)
    THEN LET c1 == CopyAssign(c, other, 0, o, 0, g)
         IN OptRes(c1, TRUE, IF c1.ex THEN "throw" ELSE "ok", U)
    ELSE LET c1 == CopyConstruct(c, other, 0, o, 0, g)
         IN IF c1.ex THEN OptRes(c1, FALSE, "throw", U) ELSE OptRes(c1, TRUE, "ok", U)

\* Optional::operator=(Optional&&): no test for this == &rhs
OptMoveAssign(c, o, x, other, rhs, g, nothrow) ==
    IF ~HasValue(rhs) THEN OptReset(c, o, x)
    ELSE IF HasValue(x)
    THEN LET c1 == MoveAssign(c, other, 0, o, 0, g)
         IN OptRes(c1, TRUE, IF c1.ex THEN "throw" ELSE "ok", U)
    ELSE LET c1 == MoveConstruct(c, other, 0, o, 0, g, nothrow)
         IN IF c1.ex THEN OptRes(c1, FALSE, "throw", U) ELSE OptRes(c1, TRUE, "ok", U)

\* a Value that hands out the storage without looking at the flag
OptValueUnchecked(c, o, x, g) ==
    OptRes([c EXCEPT !.ub = @ \/ ReadUB(c, o, 0)], HasValue(x), "ok", ReadSlot(c, o, 0, g))

\* Optional::Value: BadOptionalAccess when there is no value
OptValue(c, o, x, g) ==
    IF ~HasValue(x) THEN OptRes(c, FALSE, "bad_access", U)
    ELSE OptRes([c EXCEPT !.ub = @ \/ ReadUB(c, o, 0)], TRUE, "ok", ReadSlot(c, o, 0, g))

\* Optional::Emplace, declared noexcept: an exception of T's constructor
\* cannot leave it, std::terminate is called
OptEmplace(c, o, x, val) ==
    LET r == OptReset(c, o, x)
        c1 == ConstructAt(r.c, o, 0, val)
    IN IF c1.ex THEN OptRes(c1, r.flag, "terminate", U)
       ELSE OptRes(c1, TRUE, "ok", U)

\* ---- the program ---------------------------------------------------------
NoVec == "-"
Elems(h, x) == [j \in 1..Size(x) |-> h[Begin(x)][j]]
ElemsOf(v) == Elems(heap, vec[v].obj)

\* what the last call was: the operation, its object, how it ended and the
\* branch it took; for Erase, the position and the elements before the call;
\* for an Insert that returned, the position and the value; for an Insert that
\* puts the element just erased back where it was (rt), the elements before
\* that Erase
Rec(op, v, r, i, pre) ==
    [op |-> op, v |-> v, outcome |-> r.outcome, branch |-> r.branch,
     i |-> i, val |-> -1, pre |-> pre, rt |-> FALSE]

\* Insert(begin() + i, val) on v undoes the Erase that was the last call
PutsBack(v, i, val) ==
    /\ last.op = "Erase" /\ last.outcome = "ok" /\ last.v = v
    /\ last.i = i /\ last.pre[i + 1] = val

Init ==
    /\ vec = [v \in VecIds |-> [alive |-> FALSE, obj |-> EmptyVector]]
    /\ heap = [b \in Blocks |-> <<>>]
    /\ nothrow_move \in BOOLEAN
    /\ ub = FALSE
    /\ last = [op |-> "init", v |-> NoVec, outcome |-> "ok", branch |-> "init",
               i |-> -1, val |-> -1, pre |-> <<>>, rt |-> FALSE]
    /\ opt = [o \in OptIds |-> [alive |-> FALSE, obj |-> EmptyOptional]]
    /\ terminated = FALSE

\* one vector changed
Commit1(v, r, rec) ==
    /\ vec' = [vec EXCEPT ![v].obj = r.x]
    /\ heap' = r.c.heap
    /\ ub' = r.c.ub
    /\ last' = rec
    /\ UNCHANGED <<nothrow_move, opt, terminated>>

\* two vectors changed
Commit2(v, w, r, rec) ==
    /\ vec' = [vec EXCEPT ![v].obj = r.x, ![w].obj = r.y]
    /\ heap' = r.c.heap
    /\ ub' = r.c.ub
    /\ last' = rec
    /\ UNCHANGED <<nothrow_move, opt, terminated>>

Alive(v) == ~ub /\ vec[v].alive
Dead(v) == ~ub /\ ~vec[v].alive

\* Vector v;
DoDefaultCtor(v) ==
    /\ Dead(v)
    /\ vec' = [vec EXCEPT ![v] = [alive |-> TRUE, obj |-> EmptyVector]]
    /\ last' = Rec("DefaultCtor", v,
                   Res(Ctx(heap, 0), EmptyVector, "ok", "ctor", NoPtr), -1, <<>>)
    /\ UNCHANGED <<heap, nothrow_move, ub, opt, terminated>>

\* Vector v(n);
DoSizeCtor(v, n, t) ==
    /\ Dead(v)
    /\ LET r == SizeCtor(Ctx(heap, t), n)
       IN /\ vec' = [vec EXCEPT ![v] = [alive |-> r.outcome = "ok", obj |-> r.x]]
          /\ heap' = r.c.heap
          /\ ub' = r.c.ub
          /\ last' = Rec("SizeCtor", v, r, -1, <<>>)
    /\ UNCHANGED <<nothrow_move, opt, terminated>>

\* Vector v(w);
DoCopyCtor(v, w, t, g) ==
    /\ Dead(v) /\ Alive(w)
    /\ LET r == CopyCtor(Ctx(heap, t), vec[w].obj, g)
       IN /\ vec' = [vec EXCEPT ![v] = [alive |-> r.outcome = "ok", obj |-> r.x]]
          /\ heap' = r.c.heap
          /\ ub' = r.c.ub
          /\ last' = Rec("CopyCtor", v, r, -1, <<>>)
    /\ UNCHANGED <<nothrow_move, opt, terminated>>

\* Vector v(std::move(w));
DoMoveCtor(v, w) ==
    /\ Dead(v) /\ Alive(w)
    /\ LET r == MoveCtor(Ctx(heap, 0), vec[w].obj)
       IN /\ vec' = [vec EXCEPT ![v] = [alive |-> TRUE, obj |-> r.x], ![w].obj = r.y]
          /\ last' = Rec("MoveCtor", v, r, -1, <<>>)
    /\ UNCHANGED <<heap, nothrow_move, ub, opt, terminated>>

\* v goes out of scope
DoDtor(v) ==
    /\ Alive(v)
    /\ LET c == VectorDtor(Ctx(heap, 0), vec[v].obj)
       IN /\ vec' = [vec EXCEPT ![v] = [alive |-> FALSE, obj |-> EmptyVector]]
          /\ heap' = c.heap
          /\ ub' = c.ub
          /\ last' = Rec("Dtor", v,
                         Res(c, EmptyVector, "ok", "dtor", NoPtr), -1, <<>>)
    /\ UNCHANGED <<nothrow_move, opt, terminated>>

\* v = w;
DoCopyAssign(v, w, t, g) ==
    /\ Alive(v) /\ Alive(w)
    /\ LET r == IF v = w THEN Res(Ctx(heap, t), vec[v].obj, "ok", "self", NoPtr)
                ELSE CopyAssignVec(Ctx(heap, t), vec[v].obj, vec[w].obj, g)
       IN Commit1(v, r, Rec("CopyAssign", v, r, -1, <<>>))

\* v = std::move(w);
DoMoveAssign(v, w) ==
    /\ Alive(v) /\ Alive(w)
    /\ LET r == IF v = w THEN Res2(Ctx(heap, 0), vec[v].obj, vec[v].obj, "ok", "self")
                ELSE MoveAssignVec(Ctx(heap, 0), vec[v].obj, vec[w].obj)
       IN Commit2(v, w, r, Rec("MoveAssign", v, r, -1, <<>>))

\* v.Swap(w);
DoSwap(v, w) ==
    /\ Alive(v) /\ Alive(w)
    /\ LET r == SwapVec(Ctx(heap, 0), vec[v].obj, vec[w].obj)
       IN Commit2(v, w, r, Rec("Swap", v, r, -1, <<>>))

\* v.Reserve(n);
DoReserve(v, n, t, g) ==
    /\ Alive(v)
    /\ LET r == Reserve(Ctx(heap, t), vec[v].obj, n, g, nothrow_move)
       IN Commit1(v, r, Rec("Reserve", v, r, -1, <<>>))

\* v.Resize(n);
DoResize(v, n, t, g) ==
    /\ Alive(v)
    /\ LET r == Resize(Ctx(heap, t), vec[v].obj, n, g, nothrow_move)
       IN Commit1(v, r, Rec("Resize", v, r, -1, <<>>))

\* v.PushBack(val); / v.EmplaceBack(val);
DoPushBack(v, val, t, g, lim) ==
    /\ Alive(v)
    /\ Fits(vec[v].obj, lim)
    /\ LET r == EmplaceBack(Ctx(heap, t), vec[v].obj, val, g, nothrow_move)
       IN Commit1(v, r, Rec("PushBack", v, r, -1, <<>>))

\* v.PopBack();  precondition: the vector is not empty
DoPopBack(v) ==
    /\ Alive(v)
    /\ Size(vec[v].obj) > 0
    /\ LET r == PopBack(Ctx(heap, 0), vec[v].obj)
       IN Commit1(v, r, Rec("PopBack", v, r, -1, <<>>))

\* v.Insert(v.begin() + i, val); / v.Emplace(v.begin() + i, val);
DoInsert(v, i, val, t, g, lim) ==
    /\ Alive(v)
    /\ i <= Size(vec[v].obj)
    /\ Fits(vec[v].obj, lim)
    /\ LET r == Emplace(Ctx(heap, t), vec[v].obj, i, val, g, nothrow_move)
       IN Commit1(v, r, IF r.outcome # "ok" THEN Rec("Insert", v, r, -1, <<>>)
                        ELSE IF PutsBack(v, i, val)
                        THEN [Rec("Insert", v, r, i, last.pre) EXCEPT !.val = val, !.rt = TRUE]
                        ELSE [Rec("Insert", v, r, i, <<>>) EXCEPT !.val = val])

\* v.Erase(v.begin() + i);  precondition: i < size
DoErase(v, i, t, g) ==
    /\ Alive(v)
    /\ i < Size(vec[v].obj)
    /\ LET r == Erase(Ctx(heap, t), vec[v].obj, i, g)
       IN Commit1(v, r, Rec("Erase", v, r, i, ElemsOf(v)))

\* v.PushBack(v[j]); / v.PushBack(std::move(v[j]));  the record keeps the
\* elements before the call and the value v[j] had
DoPushBackRef(v, j, mv, t, g, lim) ==
    /\ Alive(v)
    /\ j < Size(vec[v].obj)
    /\ Fits(vec[v].obj, lim)
    /\ LET r == EmplaceBackRef(Ctx(heap, t), vec[v].obj, j, mv, g, nothrow_move)
       IN Commit1(v, r, [Rec(IF mv THEN "PushBackMovedRef" ELSE "PushBackRef", v, r,
                             Size(vec[v].obj), ElemsOf(v))
                         EXCEPT !.val = ElemsOf(v)[j + 1]])

\* v.Insert(v.begin() + i, v[j]); / v.Insert(v.begin() + i, std::move(v[j]));
DoInsertRef(v, i, j, mv, t, g, lim) ==
    /\ Alive(v)
    /\ i <= Size(vec[v].obj)
    /\ j < Size(vec[v].obj)
    /\ Fits(vec[v].obj, lim)
    /\ LET r == EmplaceRef(Ctx(heap, t), vec[v].obj, i, j, mv, g, nothrow_move)
       IN Commit1(v, r, [Rec(IF mv THEN "InsertMovedRef" ELSE "InsertRef", v, r,
                             i, ElemsOf(v))
                         EXCEPT !.val = ElemsOf(v)[j + 1]])

\* the element operations of one call that can throw are at most the elements
\* it touches and two more (the new element and a temporary)
ThrowPoints(v, n) ==
    0..((IF Size(vec[v].obj) > n THEN Size(vec[v].obj) ELSE n) + 2)

\* what a read of raw memory can yield; no call reads raw memory of a vector
\* whose elements are all constructed
Garbage(v) ==
    IF \E j \in 1..Size(vec[v].obj) : heap[Begin(vec[v].obj)][j] = U
    THEN Values ELSE {DefaultValue}

Sizes == 0..MaxCap
SizesTwo == 0..MaxCapTwo

\* the two-vector program runs with an element type whose operations succeed
NoThrow == {0}

\* two vectors, every public operation
Next ==
    \/ \E v \in VecIds : DoDefaultCtor(v)
    \/ \E v \in VecIds, n \in SizesTwo, t \in NoThrow : DoSizeCtor(v, n, t)
    \/ \E v, w \in VecIds : \E t \in NoThrow, g \in Garbage(w) : DoCopyCtor(v, w, t, g)
    \/ \E v, w \in VecIds : DoMoveCtor(v, w)
    \/ \E v \in VecIds : DoDtor(v)
    \/ \E v, w \in VecIds, t \in NoThrow, g \in Values : DoCopyAssign(v, w, t, g)
    \/ \E v, w \in VecIds : DoMoveAssign(v, w)
    \/ \E v, w \in VecIds : DoSwap(v, w)
    \/ \E v \in VecIds : \E n \in SizesTwo, t \in NoThrow, g \in Garbage(v) :
          DoReserve(v, n, t, g)
    \/ \E v \in VecIds : \E n \in SizesTwo, t \in NoThrow, g \in Garbage(v) :
          DoResize(v, n, t, g)
    \/ \E v \in VecIds : \E val \in Values, t \in NoThrow, g \in Garbage(v) :
          DoPushBack(v, val, t, g, MaxCapTwo)
    \/ \E v \in VecIds : DoPopBack(v)
    \/ \E v \in VecIds : \E i \in SizesTwo, val \in Values, t \in NoThrow, g \in Garbage(v) :
          DoInsert(v, i, val, t, g, MaxCapTwo)
    \/ \E v \in VecIds : \E i \in SizesTwo, t \in NoThrow, g \in Garbage(v) :
          DoErase(v, i, t, g)

Spec == Init /\ [][Next]_vars

\* one vector, its own operations, with an element type whose operations can throw
NextOne ==
    \/ DoDefaultCtor("a")
    \/ \E n \in Sizes, t \in 0..MaxCap : DoSizeCtor("a", n, t)
    \/ DoDtor("a")
    \/ \E n \in Sizes, t \in ThrowPoints("a", 0), g \in Garbage("a") : DoReserve("a", n, t, g)
    \/ \E n \in Sizes : \E t \in ThrowPoints("a", n), g \in Garbage("a") :
          DoResize("a", n, t, g)
    \/ \E val \in Values, t \in ThrowPoints("a", 0), g \in Garbage("a") :
          DoPushBack("a", val, t, g, MaxCap)
    \/ DoPopBack("a")
    \/ \E i \in Sizes, val \in Values, t \in ThrowPoints("a", 0), g \in Garbage("a") :
          DoInsert("a", i, val, t, g, MaxCap)
    \/ \E i \in Sizes, t \in ThrowPoints("a", 0), g \in Garbage("a") : DoErase("a", i, t, g)

SpecOne == Init /\ [][NextOne]_vars

\* one vector that only grows by PushBack
NextPush ==
    \/ DoDefaultCtor("a")
    \/ \E val \in Values, t \in ThrowPoints("a", 0), g \in Garbage("a") :
          DoPushBack("a", val, t, g, MaxPushCap)

SpecPush == Init /\ [][NextPush]_vars

\* one vector filled by PushBack, with insertions of its own elements, and an
\* element type whose operations succeed
NextSelf ==
    \/ DoDefaultCtor("a")
    \/ DoDtor("a")
    \/ \E n \in Sizes, t \in NoThrow, g \in Garbage("a") : DoReserve("a", n, t, g)
    \/ \E val \in Values, t \in NoThrow, g \in Garbage("a") :
          DoPushBack("a", val, t, g, MaxCap)
    \/ DoPopBack("a")
    \/ \E j \in Sizes, mv \in BOOLEAN, t \in NoThrow, g \in Garbage("a") :
          DoPushBackRef("a", j, mv, t, g, MaxCap)
    \/ \E i, j \in Sizes, mv \in BOOLEAN, t \in NoThrow, g \in Garbage("a") :
          DoInsertRef("a", i, j, mv, t, g, MaxCap)

SpecSelf == Init /\ [][NextSelf]_vars

\* ---- the program: Optional ----------------------------------------------
OptObj(o) == opt[o].obj
OptAlive(o) == ~ub /\ ~terminated /\ opt[o].alive
OptDead(o) == ~ub /\ ~terminated /\ ~opt[o].alive

OptRec(op, o, r, val) ==
    [op |-> op, v |-> o, outcome |-> r.outcome, branch |-> "opt",
     i |-> -1, val |-> val, pre |-> <<>>, rt |-> FALSE]

\* the call on o ends: o lives or not, its flag and every storage are updated;
\* std::terminate ends the program
OptCommit(o, r, lives, rec) ==
    /\ opt' = [q \in OptIds |->
                 [alive |-> IF q = o THEN lives ELSE opt[q].alive,
                  obj |-> [data_ |-> r.c.heap[q],
                           is_initialized_ |-> IF q = o THEN r.flag
                                               ELSE HasValue(OptObj(q))]]]
    /\ ub' = r.c.ub
    /\ terminated' = (r.outcome = "terminate")
    /\ last' = rec
    /\ UNCHANGED <<vec, heap, nothrow_move>>

\* Optional<T> o;
DoOptDefaultCtor(o) ==
    /\ OptDead(o)
    /\ LET r == OptRes(OptCtx(opt, 0), FALSE, "ok", U)
       IN OptCommit(o, r, TRUE, OptRec("OptDefaultCtor", o, r, -1))

\* Optional<T> o(val);
DoOptValueCtor(o, val, t) ==
    /\ OptDead(o)
    /\ LET r == OptValueCtor(OptCtx(opt, t), o, val)
       IN OptCommit(o, r, r.outcome = "ok", OptRec("OptValueCtor", o, r, val))

\* Optional<T> o(std::move(val));
DoOptRvalueCtor(o, val, t) ==
    /\ OptDead(o)
    /\ LET r == OptRvalueCtor(OptCtx(opt, t), o, val, nothrow_move)
       IN OptCommit(o, r, r.outcome = "ok", OptRec("OptRvalueCtor", o, r, val))

\* Optional<T> o(q);
DoOptCopyCtor(o, q, t, g) ==
    /\ OptDead(o) /\ OptAlive(q)
    /\ LET r == OptCopyCtor(OptCtx(opt, t), o, q, OptObj(q), g)
       IN OptCommit(o, r, r.outcome = "ok", OptRec("OptCopyCtor", o, r, -1))

\* Optional<T> o(std::move(q));
DoOptMoveCtor(o, q, t, g) ==
    /\ OptDead(o) /\ OptAlive(q)
    /\ LET r == OptMoveCtor(OptCtx(opt, t), o, q, OptObj(q), g, nothrow_move)
       IN OptCommit(o, r, r.outcome = "ok", OptRec("OptMoveCtor", o, r, -1))

\* o goes out of scope: ~Optional() is Reset()
DoOptDtor(o) ==
    /\ OptAlive(o)
    /\ LET r == OptReset(OptCtx(opt, 0), o, OptObj(o))
       IN OptCommit(o, r, FALSE, OptRec("OptDtor", o, r, -1))

\* o = val;
DoOptAssignValue(o, val, t) ==
    /\ OptAlive(o)
    /\ LET r == OptAssignValue(OptCtx(opt, t), o, OptObj(o), val)
       IN OptCommit(o, r, TRUE, OptRec("OptAssignValue", o, r, val))

\* o = std::move(val);
DoOptAssignRvalue(o, val, t) ==
    /\ OptAlive(o)
    /\ LET r == OptAssignRvalue(OptCtx(opt, t), o, OptObj(o), val, nothrow_move)
       IN OptCommit(o, r, TRUE, OptRec("OptAssignRvalue", o, r, val))

\* o = q;
DoOptCopyAssign(o, q, t, g) ==
    /\ OptAlive(o) /\ OptAlive(q)
    /\ LET r == OptCopyAssign(OptCtx(opt, t), o, OptObj(o), q, OptObj(q), g)
       IN OptCommit(o, r, TRUE, OptRec("OptCopyAssign", o, r, -1))

\* o = std::move(q);
DoOptMoveAssign(o, q, t, g) ==
    /\ OptAlive(o) /\ OptAlive(q)
    /\ LET r == OptMoveAssign(OptCtx(opt, t), o, OptObj(o), q, OptObj(q), g, nothrow_move)
       IN OptCommit(o, r, TRUE, OptRec("OptMoveAssign", o, r, -1))

\* o.Value();
DoOptValue(o, g) ==
    /\ OptAlive(o)
    /\ LET r == OptValue(OptCtx(opt, 0), o, OptObj(o), g)
       IN OptCommit(o, r, TRUE, OptRec("OptValue", o, r, r.ret))

\* o.Emplace(val); for a value that does not live in o
DoOptEmplace(o, val, t) ==
    /\ OptAlive(o)
    /\ LET r == OptEmplace(OptCtx(opt, t), o, OptObj(o), val)
       IN OptCommit(o, r, TRUE, OptRec("OptEmplace", o, r, val))

\* o.Reset();
DoOptReset(o) ==
    /\ OptAlive(o)
    /\ LET r == OptReset(OptCtx(opt, 0), o, OptObj(o))
       IN OptCommit(o, r, TRUE, OptRec("OptReset", o, r, -1))

\* a call on an Optional runs at most one element operation that can throw
OptThrowPoints == 0..1

\* what a read of storage without a value can yield; no call reads the storage
\* of an Optional whose flag and storage agree
OptGarbage ==
    IF \E o \in OptIds : HasValue(OptObj(o)) /\ OptObj(o).data_[1] = U
    THEN Values ELSE {DefaultValue}

\* two Optionals, every public operation
NextOpt ==
    \/ \E o \in OptIds : DoOptDefaultCtor(o)
    \/ \E o \in OptIds, val \in Values, t \in OptThrowPoints : DoOptValueCtor(o, val, t)
    \/ \E o \in OptIds, val \in Values, t \in OptThrowPoints : DoOptRvalueCtor(o, val, t)
    \/ \E o, q \in OptIds, t \in OptThrowPoints, g \in OptGarbage : DoOptCopyCtor(o, q, t, g)
    \/ \E o, q \in OptIds, t \in OptThrowPoints, g \in OptGarbage : DoOptMoveCtor(o, q, t, g)
    \/ \E o \in OptIds : DoOptDtor(o)
    \/ \E o \in OptIds, val \in Values, t \in OptThrowPoints : DoOptAssignValue(o, val, t)
    \/ \E o \in OptIds, val \in Values, t \in OptThrowPoints : DoOptAssignRvalue(o, val, t)
    \/ \E o, q \in OptIds, t \in OptThrowPoints, g \in OptGarbage : DoOptCopyAssign(o, q, t, g)
    \/ \E o, q \in OptIds, t \in OptThrowPoints, g \in OptGarbage : DoOptMoveAssign(o, q, t, g)
    \/ \E o \in OptIds, g \in OptGarbage : DoOptValue(o, g)
    \/ \E o \in OptIds, val \in Values, t \in OptThrowPoints : DoOptEmplace(o, val, t)
    \/ \E o \in OptIds : DoOptReset(o)

SpecOpt == Init /\ [][NextOpt]_vars

\* ---- vocabulary of the properties --------------------------------------
A == vec["a"].obj
SizeOf(v) == Size(vec[v].obj)
CapacityOf(v) == Capacity(vec[v].obj)
BeginOf(v) == Begin(vec[v].obj)
Other(v) == IF v = "a" THEN "b" ELSE "a"
AnyThrow == 0..(MaxPushCap + 2)

InsertAt(s, i, val) == SubSeq(s, 1, i) \o <<val>> \o SubSeq(s, i + 1, Len(s))
RemoveAt(s, i) == SubSeq(s, 1, i) \o SubSeq(s, i + 2, Len(s))
AllConstructed(s) == \A j \in 1..Len(s) : s[j] # U

\* slots [0, size) hold objects, slots [size, capacity) are raw
WellFormed(h, x) ==
    /\ Size(x) <= Capacity(x)
    /\ \A j \in 1..Size(x) : h[Begin(x)][j] # U
    /\ \A j \in (Size(x) + 1)..Capacity(x) : h[Begin(x)][j] = U

\* ---- C1 ------------------------------------------------------------------
\* C1: after any sequence of public operations called within their
\* preconditions, every live vector has 0 <= size <= capacity, objects in all of
\* the slots [0, size) and raw memory in all of the slots [size, capacity).
C1_VectorInvariant ==
    \A v \in VecIds : vec[v].alive => WellFormed(heap, vec[v].obj)

\* ---- C2 ------------------------------------------------------------------
\* C2: for distinct well-formed vectors v and w, a copy assignment v = w that
\* returns leaves v with the size and the elements of w, and w unchanged, in
\* the reallocating branch and in both in-place branches.
C2_CopyAssignEqual ==
    [][\A v, w \in VecIds, g \in Values :
          (/\ v # w
           /\ WellFormed(heap, vec[v].obj) /\ WellFormed(heap, vec[w].obj)
           /\ DoCopyAssign(v, w, 0, g)
           /\ last'.outcome = "ok")
          => /\ SizeOf(v)' = SizeOf(w)
             /\ ElemsOf(v)' = ElemsOf(w)
             /\ ElemsOf(w)' = ElemsOf(w)]_vars

\* ---- C3 ------------------------------------------------------------------
\* C3: Resize(m) of a well-formed vector of size n and capacity c < m that
\* returns ends with size m and capacity m, the elements [0, n) as before and
\* value-constructed elements in the slots [n, m).
C3_ResizeBeyondCapacity ==
    [][\A m \in Sizes, t \in AnyThrow, g \in Values :
          (/\ last'.op = "Resize"
           /\ WellFormed(heap, A)
           /\ m > CapacityOf("a")
           /\ DoResize("a", m, t, g)
           /\ last'.outcome = "ok")
          => /\ SizeOf("a")' = m
             /\ CapacityOf("a")' = m
             /\ \A j \in 1..SizeOf("a") : heap'[BeginOf("a")'][j] = heap[BeginOf("a")][j]
             /\ \A j \in (SizeOf("a") + 1)..m : heap'[BeginOf("a")'][j] = DefaultValue]_vars

\* ---- C4 ------------------------------------------------------------------
\* C4: Resize(m) of a well-formed vector of size n and capacity c with
\* n < m <= c value-constructs exactly the slots [n, m), destroys nothing,
\* leaves the elements [0, n) and the capacity as they were and sets size to m.
C4_ResizeWithinCapacity ==
    [][\A m \in Sizes, t \in AnyThrow, g \in Values :
          (/\ last'.op = "Resize"
           /\ WellFormed(heap, A)
           /\ SizeOf("a") < m /\ m <= CapacityOf("a")
           /\ DoResize("a", m, t, g)
           /\ last'.outcome = "ok")
          => /\ SizeOf("a")' = m
             /\ CapacityOf("a")' = CapacityOf("a")
             /\ BeginOf("a")' = BeginOf("a")
             /\ \A j \in 1..SizeOf("a") : heap'[BeginOf("a")][j] = heap[BeginOf("a")][j]
             /\ \A j \in (SizeOf("a") + 1)..m : heap'[BeginOf("a")][j] = DefaultValue
             /\ Resize(Ctx(heap, t), A, m, g, nothrow_move).c.dtor = 0
             /\ Resize(Ctx(heap, t), A, m, g, nothrow_move).c.ctor = m - SizeOf("a")]_vars

\* ---- C5 ------------------------------------------------------------------
\* C5: move construction from w, and move assignment of w to another vector v,
\* leave w with size 0 and capacity 0 and v with the elements w had, in order.
C5_MoveLeavesSourceEmpty ==
    [][\A v, w \in VecIds :
          (v # w /\ (DoMoveCtor(v, w) \/ DoMoveAssign(v, w)))
          => /\ SizeOf(w)' = 0
             /\ CapacityOf(w)' = 0
             /\ SizeOf(v)' = SizeOf(w)
             /\ ElemsOf(v)' = ElemsOf(w)]_vars

C5_Witness ==
    /\ last.op = "MoveAssign" /\ last.branch = "move"
    /\ SizeOf(last.v) = MaxCapTwo
    /\ SizeOf(Other(last.v)) = 0 /\ CapacityOf(Other(last.v)) = 0

\* ---- C6 ------------------------------------------------------------------
\* C6: with an element type that is relocated by copying, an insertion
\* (Insert/Emplace at any position, PushBack/EmplaceBack) into a full vector
\* that ends with an exception of an element operation leaves the size and
\* every element as they were.
C6_StrongGuarantee ==
    [][(/\ ~nothrow_move
        /\ SizeOf("a") = CapacityOf("a")
        /\ last'.op \in {"Insert", "PushBack"}
        /\ last'.outcome = "throw")
       => /\ SizeOf("a")' = SizeOf("a")
          /\ ElemsOf("a")' = ElemsOf("a")]_vars

C6_Witness ==
    /\ ~nothrow_move
    /\ last.op = "Insert" /\ last.branch = "realloc" /\ last.outcome = "throw"
    /\ SizeOf("a") = 2 /\ CapacityOf("a") = 2

\* ---- C7 ------------------------------------------------------------------
\* C7: from an empty default-constructed vector, a PushBack that returns
\* changes the capacity exactly when size = capacity held before it, and then
\* to max(1, 2 * size): the capacities are 1, 2, 4, 8, ...
C7_CapacityDoubling ==
    [][(last'.op = "PushBack" /\ last'.outcome = "ok")
       => CapacityOf("a")' =
             IF SizeOf("a") = CapacityOf("a")
             THEN (IF 2 * SizeOf("a") > 1 THEN 2 * SizeOf("a") ELSE 1)
             ELSE CapacityOf("a")]_vars

C7_Witness ==
    /\ last.op = "PushBack" /\ last.branch = "realloc" /\ last.outcome = "ok"
    /\ CapacityOf("a") = 8 /\ SizeOf("a") = 5

\* ---- C8 ------------------------------------------------------------------
\* C8: Insert/Emplace of val at index i of a vector of n constructed elements
\* s, when it returns, leaves s[0..i) ++ [val] ++ s[i..n), size n + 1, and
\* returns the position of index i, in the reallocating branch, the shifting
\* branch and the in-capacity branch at the end.
C8_InsertAt ==
    [][(/\ last'.op = "Insert" /\ last'.outcome = "ok"
        /\ AllConstructed(ElemsOf("a")))
       => /\ ElemsOf("a")' = InsertAt(ElemsOf("a"), last'.i, last'.val)
          /\ SizeOf("a")' = SizeOf("a") + 1
          /\ Emplace(Ctx(heap, 0), A, last'.i, last'.val, DefaultValue, nothrow_move).ret
                = Ptr(BeginOf("a")', last'.i)
          /\ last'.branch = (IF SizeOf("a") = CapacityOf("a") THEN "realloc"
                             ELSE IF last'.i # SizeOf("a") THEN "shift" ELSE "end")]_vars

C8_Witness ==
    /\ last.op = "Insert" /\ last.branch = "shift" /\ last.outcome = "ok"
    /\ last.i = 0
    /\ SizeOf("a") = 4
    /\ ElemsOf("a")[2] # ElemsOf("a")[3]

\* ---- C9 ------------------------------------------------------------------
\* C9: Erase at index i of a vector of n >= 1 constructed elements s, when it
\* returns, leaves s[0..i) ++ s[i+1..n), size n - 1, the capacity unchanged,
\* has destroyed exactly one object (the vacated last slot) and returns the
\* position of index i, which is end() when i was the last index.
C9_EraseAt ==
    [][(/\ last'.op = "Erase" /\ last'.outcome = "ok"
        /\ AllConstructed(ElemsOf("a")))
       => /\ ElemsOf("a")' = RemoveAt(ElemsOf("a"), last'.i)
          /\ SizeOf("a")' = SizeOf("a") - 1
          /\ CapacityOf("a")' = CapacityOf("a")
          /\ BeginOf("a")' = BeginOf("a")
          /\ Erase(Ctx(heap, 0), A, last'.i, DefaultValue).c.dtor = 1
          /\ heap'[BeginOf("a")][SizeOf("a")] = U
          /\ Erase(Ctx(heap, 0), A, last'.i, DefaultValue).ret = Ptr(BeginOf("a")', last'.i)
          /\ (last'.i = SizeOf("a") - 1
                => Erase(Ctx(heap, 0), A, last'.i, DefaultValue).ret
                      = Ptr(BeginOf("a")', SizeOf("a")'))]_vars

C9_Witness ==
    /\ last.op = "Erase" /\ last.outcome = "ok"
    /\ last.i = 0 /\ Len(last.pre) = 3
    /\ last.pre[2] # last.pre[3]

\* ---- C10 -----------------------------------------------------------------
\* C10: erasing the element at a valid index i of a vector of constructed
\* elements and then inserting the erased value at index i gives back the
\* element sequence and the size the vector had.
C10_EraseInsertRoundTrip ==
    (last.op = "Insert" /\ last.rt /\ last.outcome = "ok" /\ AllConstructed(last.pre))
    => /\ ElemsOf(last.v) = last.pre
       /\ SizeOf(last.v) = Len(last.pre)

C10_Witness ==
    /\ last.op = "Insert" /\ last.rt /\ last.outcome = "ok"
    /\ last.branch = "shift"
    /\ Len(last.pre) = 3 /\ AllConstructed(last.pre)
    /\ last.pre[1] # last.pre[2]

OwnOps == {"Dtor", "CopyAssign", "Reserve", "Resize", "PushBack", "PopBack",
           "Insert", "Erase"}

\* C12: no two live vectors ever own the same block; a copy construction of v
\* from a well-formed w that returns gives v the size and the elements of w in
\* a block that is not w's and leaves w as it was; and a later call on one
\* vector (one that stays within defined behaviour) leaves the fields, the
\* size and the elements of the other vector as they were.
C12_CopyOwnsItsBlock ==
    /\ [](\A v, w \in VecIds :
             (v # w /\ vec[v].alive /\ vec[w].alive /\ BeginOf(v) # Null)
             => BeginOf(v) # BeginOf(w))
    /\ [][\A v \in VecIds :
             (/\ last'.op = "CopyCtor" /\ last'.v = v /\ last'.outcome = "ok"
              /\ WellFormed(heap, vec[Other(v)].obj))
             => /\ vec'[v].alive
                /\ SizeOf(v)' = SizeOf(Other(v))
                /\ ElemsOf(v)' = ElemsOf(Other(v))
                /\ CapacityOf(v)' = SizeOf(Other(v))
                /\ BeginOf(v)' # Null => BeginOf(v)' # BeginOf(Other(v))'
                /\ vec'[Other(v)] = vec[Other(v)]
                /\ ElemsOf(Other(v))' = ElemsOf(Other(v))]_vars
    /\ [][\A v \in VecIds :
             (last'.op \in OwnOps /\ last'.v = v /\ ~ub')
             => /\ vec'[Other(v)] = vec[Other(v)]
                /\ ElemsOf(Other(v))' = ElemsOf(Other(v))]_vars

C12_Witness ==
    /\ last.op = "CopyCtor" /\ last.v = "b" /\ last.outcome = "ok"
    /\ vec["a"].alive /\ vec["b"].alive
    /\ ElemsOf("a") = <<0, 1>> /\ ElemsOf("b") = <<0, 1>>
    /\ BeginOf("a") # BeginOf("b")

\* ---- C13 -----------------------------------------------------------------
\* C13: from every well-formed vector and for every outcome of the element
\* operations, PushBack/EmplaceBack(val) ends as Emplace(end(), val) would:
\* the same outcome, the same fields (block, capacity, size), the same heap,
\* and the same number of objects constructed and never destroyed.
C13_EmplaceBackIsEmplaceAtEnd ==
    [][(last'.op = "PushBack" /\ WellFormed(heap, A))
       => \A val \in Values, t \in ThrowPoints("a", 0), g \in Garbage("a") :
             DoPushBack("a", val, t, g, MaxCap)
             => LET back == EmplaceBack(Ctx(heap, t), A, val, g, nothrow_move)
                    atend == Emplace(Ctx(heap, t), A, SizeOf("a"), val, g, nothrow_move)
                IN /\ last'.outcome = atend.outcome
                   /\ A' = atend.x
                   /\ heap' = atend.c.heap
                   /\ back.c.ctor - back.c.dtor = atend.c.ctor - atend.c.dtor
                   /\ back.c.lost = atend.c.lost]_vars

\* ---- C14 -----------------------------------------------------------------
\* the calls that replace the whole state of a vector
ReplacingOps == {"CopyAssign", "MoveAssign", "MoveCtor", "Swap"}

\* C14: across Reserve, Resize, Insert/Emplace, PushBack/EmplaceBack, PopBack
\* and Erase, however the call ends, the capacity of the vector is at least
\* what it was; and while a vector lives its capacity decreases only in a call
\* that replaces its whole state (an assignment, a move, a swap).
C14_CapacityNeverDecreases ==
    [][\A v \in VecIds :
          /\ (last'.v = v /\ last'.op \in {"Reserve", "Resize", "Insert", "PushBack",
                                            "PopBack", "Erase"})
                => CapacityOf(v)' >= CapacityOf(v)
          /\ (vec[v].alive /\ vec'[v].alive /\ CapacityOf(v)' < CapacityOf(v))
                => last'.op \in ReplacingOps]_vars

C14_Witness ==
    /\ last.op = "PopBack" /\ last.outcome = "ok"
    /\ SizeOf("a") = 0 /\ CapacityOf("a") = MaxCap

\* ---- C15 -----------------------------------------------------------------
\* C15: after any sequence of Optional operations (constructions, copy and
\* move construction, assignment from a value or from another Optional,
\* Emplace, Reset), however each ended, the storage of every living Optional
\* holds an object exactly when its flag is set.
C15_OptionalInvariant ==
    \A o \in OptIds :
        opt[o].alive => ((OptObj(o).data_[1] # U) <=> HasValue(OptObj(o)))

C15_Witness ==
    /\ last.op = "OptMoveAssign" /\ last.v = "p" /\ last.outcome = "ok"
    /\ HasValue(OptObj("p")) /\ OptObj("p").data_ = <<1>>
    /\ HasValue(OptObj("q")) /\ OptObj("q").data_ = <<MF>>

\* ---- C16 -----------------------------------------------------------------
\* C16: Value() ends with BadOptionalAccess exactly when the Optional has no
\* value, otherwise it returns the held value, and it never changes the
\* Optional; a default-constructed Optional has no value and its Value()
\* raises; after an Emplace(x) that returns, HasValue() is true and Value()
\* returns x; after Reset(), HasValue() is false.
C16_ValueAccess ==
    [][\A o \in OptIds :
          /\ (last'.op = "OptValue" /\ last'.v = o)
                => /\ (last'.outcome = "bad_access") <=> ~HasValue(OptObj(o))
                   /\ HasValue(OptObj(o))
                         => (last'.outcome = "ok" /\ last'.val = OptObj(o).data_[1])
                   /\ opt' = opt
                   /\ ~terminated' /\ ~ub'
          /\ (last'.op = "OptDefaultCtor" /\ last'.v = o)
                => /\ ~HasValue(OptObj(o))'
                   /\ OptValue(OptCtx(opt, 0), o, OptObj(o), DefaultValue)'.outcome
                         = "bad_access"
          /\ (last'.op = "OptEmplace" /\ last'.v = o /\ last'.outcome = "ok")
                => /\ HasValue(OptObj(o))'
                   /\ OptValue(OptCtx(opt, 0), o, OptObj(o), DefaultValue)'.outcome = "ok"
                   /\ OptValue(OptCtx(opt, 0), o, OptObj(o), DefaultValue)'.ret = last'.val
          /\ (last'.op = "OptReset" /\ last'.v = o)
                => ~HasValue(OptObj(o))']_vars

C16_Witness ==
    /\ last.op = "OptValue" /\ last.v = "p" /\ last.outcome = "bad_access"
    /\ opt["p"].alive /\ ~HasValue(OptObj("p"))
    /\ opt["q"].alive /\ HasValue(OptObj("q"))

\* ---- C17 -----------------------------------------------------------------
\* C17: when the construction inside Emplace throws, the exception reaches
\* the caller (the program goes on) and the Optional is left without a value:
\* the flag is clear, the storage is raw and the previous value, if there was
\* one, has been destroyed exactly once.
C17_EmplaceThrowLeavesDisengaged ==
    [][\A o \in OptIds, val \in Values :
          (/\ last'.op = "OptEmplace" /\ last'.v = o /\ last'.val = val
           /\ last'.outcome # "ok")
          => /\ last'.outcome = "throw"
             /\ ~terminated'
             /\ ~HasValue(OptObj(o))'
             /\ OptObj(o)'.data_ = <<U>>
             /\ OptEmplace(OptCtx(opt, 1), o, OptObj(o), val).c.dtor
                   = (IF HasValue(OptObj(o)) THEN 1 ELSE 0)]_vars

\* ---- C18 -----------------------------------------------------------------
\* C18: in the branch of Insert/Emplace with size < capacity and a position
\* before the end, when a move assignment throws (in the shift or in the final
\* assignment into the position), the vector is left well formed: objects in
\* exactly the slots [0, size) and no object in a slot at or beyond size.
C18_ShiftThrowKeepsInvariant ==
    [][(/\ last'.op = "Insert" /\ last'.branch = "shift" /\ last'.outcome = "throw"
        /\ WellFormed(heap, A))
       => \A i \in Sizes, val \in Values, t \in ThrowPoints("a", 0), g \in Garbage("a") :
             (/\ DoInsert("a", i, val, t, g, MaxCap)
              \* the temporary and, for a type whose move constructor can throw,
              \* the construction at end() come before the move assignments
              /\ t > (IF nothrow_move THEN 1 ELSE 2))
             => WellFormed(heap, A)']_vars

\* ---- C19 -----------------------------------------------------------------
\* C19: once every vector has been destroyed, every block that was allocated
\* has been released and no element object is left undestroyed in one; and a
\* move assignment onto a vector that holds a block destroys the elements of
\* that block and releases it.
C19_NothingLeaks ==
    /\ []((~ub /\ \A v \in VecIds : ~vec[v].alive)
             => \A b \in Blocks : heap[b] = <<>>)
    /\ [][\A v \in VecIds :
             (/\ last'.op = "MoveAssign" /\ last'.v = v /\ last'.branch = "move"
              /\ BeginOf(v) # Null)
             => heap'[BeginOf(v)] = <<>>]_vars

\* ---- C20 -----------------------------------------------------------------
\* C20: when the argument of Insert/Emplace or PushBack/EmplaceBack is an
\* element v[j] of the vector itself (by reference or moved), a call that
\* returns has put at the position the value v[j] had before the call, in the
\* reallocating branch, the shifting branch and at the end within capacity;
\* with the argument taken by reference the result is the old sequence with
\* that value inserted.
C20_SelfReference ==
    [][(/\ last'.op \in {"InsertRef", "InsertMovedRef", "PushBackRef", "PushBackMovedRef"}
        /\ last'.outcome = "ok"
        /\ AllConstructed(ElemsOf("a")))
       => /\ SizeOf("a")' = SizeOf("a") + 1
          /\ ElemsOf("a")'[last'.i + 1] = last'.val
          /\ last'.val \in {ElemsOf("a")[k] : k \in 1..SizeOf("a")}
          /\ last'.op \in {"InsertRef", "PushBackRef"}
                => ElemsOf("a")' = InsertAt(ElemsOf("a"), last'.i, last'.val)
          /\ last'.branch = (IF SizeOf("a") = CapacityOf("a") THEN "realloc"
                             ELSE IF last'.i # SizeOf("a") THEN "shift" ELSE "end")]_vars

C20_Witness ==
    /\ last.op = "InsertRef" /\ last.branch = "shift" /\ last.outcome = "ok"
    /\ last.pre = <<0, 1, 0>> /\ last.i = 0 /\ last.val = 1
    /\ ElemsOf("a") = <<1, 0, 1, 0>>
====
